---- MODULE Spec2Model ----
(***************************************************************************)
(* The request handler weather() of src/main.py as a state machine.        *)
(*                                                                         *)
(* One invocation at a time is followed from the arrival of the request    *)
(* to the rendering of the page: the form field is validated, one GET is   *)
(* sent to the weather provider, the reply is reshaped into display        *)
(* strings, and the result is handed to the template.  Invocations share   *)
(* no state, so following one at a time loses nothing.                     *)
(*                                                                         *)
(* Text that the handler inspects character by character (the city, the    *)
(* description, the zone name, the clock strings) is a sequence of         *)
(* one-character strings.  Text that is only concatenated is a sequence    *)
(* of its parts.                                                           *)
(***************************************************************************)
EXTENDS Integers, Sequences, FiniteSets

\* ------------------------------------------------------------------ bounds

\* Longest run of padding (other than the one long run) around a city.
MaxPad == 1
\* Longest of the short city names tried.
MaxShort == 2
\* How far beyond the length limit the long city names go.
MaxOver == 1
\* Longest weather description tried.
MaxDesc == 3

\* ----------------------------------------------------------------- strings

Min(S) == CHOOSE x \in S : \A y \in S : x <= y
Max(S) == CHOOSE x \in S : \A y \in S : x >= y

Rep(c, n) == [i \in 1..n |-> c]

\* The characters str.strip() removes when called without an argument.
Whitespace == {" ", "\t"}

StripSpacesOnly(s) ==
    LET keep == {i \in 1..Len(s) : s[i] # " "}
    IN  IF keep = {} THEN <<>> ELSE SubSeq(s, Min(keep), Max(keep))

\* str.strip(): drop the leading and the trailing run of whitespace.
Strip(s) ==
    LET keep == {i \in 1..Len(s) : s[i] \notin Whitespace}
    IN  IF keep = {} THEN <<>> ELSE SubSeq(s, Min(keep), Max(keep))

Digit(d) == CASE d = 0 -> "0" [] d = 1 -> "1" [] d = 2 -> "2" [] d = 3 -> "3"
              [] d = 4 -> "4" [] d = 5 -> "5" [] d = 6 -> "6" [] d = 7 -> "7"
              [] d = 8 -> "8" [] d = 9 -> "9"

RECURSIVE NatStr(_)
NatStr(n) == IF n < 10 THEN <<Digit(n)>> ELSE NatStr(n \div 10) \o <<Digit(n % 10)>>

\* str(n) of a Python int.
IntStr(n) == IF n < 0 THEN <<"-">> \o NatStr(-n) ELSE NatStr(n)

\* A number printed in two digits (%d, %H, %M, %S of strftime).
Two(n) == <<Digit(n \div 10), Digit(n % 10)>>

\* -------------------------------------------------------------- validation

\* The length limit of line 26.
MaxCityLen == 100

\* `not city` of line 21.
NotCity(city) == city = <<>>

TooLongGe(city) == Len(city) >= MaxCityLen
TooLongLax(city) == Len(city) > MaxCityLen + 1
\* `len(city) > 100` of line 26.
TooLong(city) == Len(city) > MaxCityLen

DefaultKey == "7f0fd63ad0a8859cb91057af6acd7bda"

\* base_url of line 30.
BaseUrl(key, city) ==
    <<"http://api.openweathermap.org/data/2.5/weather?appid=", key, "&q=">>
        \o city \o <<"&units=metric">>

ErrEmpty == <<"Please enter a valid city name.">>
ErrTooLong == <<"City name is too long. Please enter a valid city name.">>
ErrNotFound == <<"City not found. Please check the city name.">>
ErrFetchPrefix == "An error occurred while fetching weather data: "

None == [kind |-> "None"]
Failure(msg) == [kind |-> "error", error |-> msg]

\* ------------------------------------------------------------------ inputs

\* A city name of n letters; from three letters on, one with a blank inside.
Word(n, inner) == [i \in 1..n |-> IF inner /\ i = 2 /\ n >= 3 THEN " " ELSE "a"]

WordLens == 0..MaxShort \cup (MaxCityLen - 1)..(MaxCityLen + MaxOver)

\* The submitted texts: a name between two runs of whitespace, and runs of
\* whitespace alone that reach beyond the length limit.
RawCities ==
    {Rep(w, l) \o Word(n, inner) \o Rep(w, t) :
        w \in Whitespace, l \in 0..MaxPad, t \in 0..MaxPad,
        n \in WordLens, inner \in BOOLEAN}
    \cup {Rep(w, MaxCityLen + k) : w \in Whitespace, k \in 0..MaxOver}

NoField == <<"<no city field>">>
NoForm == <<"<no form>">>

\* ------------------------------------------------------------ JSON values

Absent == [t |-> "absent"]
JInt(n) == [t |-> "int", v |-> n]
JFloat(n) == [t |-> "float", v |-> n]
JStr(s) == [t |-> "str", v |-> s]
\* A temperature, in thousandths of a degree.
JNum(m) == [t |-> "num", milli |-> m]

Has(x) == x.t # "absent"

CodNot404(cod) == ~(cod.t = "int" /\ cod.v = 404)
\* `weather_data.get('cod') == 200` of line 39: Python's == holds between
\* numbers of equal value (200 and 200.0) and never between a number and a
\* string or None.
CodIs200(cod) == cod.t \in {"int", "float"} /\ cod.v = 200

Raise(exc, arg) == [kind |-> "raise", exc |-> exc, arg |-> arg]

\* ---------------------------------------------------------- fixed zones

EtcGMT == <<"E", "t", "c", "/", "G", "M", "T">>

HourOffsetTrunc(tz) == IF -tz >= 0 THEN (-tz) \div 3600 ELSE -(tz \div 3600)
\* `-timezone_offset // 3600` of line 56: the unary minus binds first and
\* // rounds toward minus infinity, as \div does.
HourOffset(tz) == (-tz) \div 3600

ZonePrefixFlipped(tz) == IF tz > 0 THEN <<"+">> ELSE <<>>
\* `'+' if timezone_offset < 0 else ''` of line 56.
ZonePrefix(tz) == IF tz < 0 THEN <<"+">> ELSE <<>>

\* The zone name the f-string of line 56 builds.
ZoneName(tz) == EtcGMT \o ZonePrefix(tz) \o IntStr(HourOffset(tz))

\* The fixed-offset zones pytz knows under Etc/GMT, each with its offset
\* from UTC in hours: Etc/GMT+N lies N hours west (behind UTC), Etc/GMT-N
\* lies N hours east.
PytzZones ==
    {<<EtcGMT, 0>>, <<EtcGMT \o <<"0">>, 0>>,
     <<EtcGMT \o <<"+", "0">>, 0>>, <<EtcGMT \o <<"-", "0">>, 0>>}
    \cup {<<EtcGMT \o <<"+">> \o NatStr(n), -n>> : n \in 1..12}
    \cup {<<EtcGMT \o <<"-">> \o NatStr(n), n>> : n \in 1..14}

ZoneKnown(name) == \E z \in PytzZones : z[1] = name
\* utcoffset() of pytz.timezone(name), in seconds.
ZoneOffset(name) == 3600 * (CHOOSE z \in PytzZones : z[1] = name)[2]

\* ------------------------------------------------------------ local time

DayNames == <<"Monday", "Tuesday", "Wednesday", "Thursday", "Friday",
              "Saturday", "Sunday">>
MonthNames == <<"January", "February", "March", "April", "May", "June", "July",
                "August", "September", "October", "November", "December">>

\* Wall-clock seconds of the instant ts in a zone off seconds from UTC.
LocalSeconds(ts, off) == ts + off

\* strftime('%H:%M:%S')
HMS(local) ==
    LET s == local % 86400
    IN  Two(s \div 3600) \o <<":">> \o Two((s % 3600) \div 60) \o <<":">> \o Two(s % 60)

\* strftime('%A'): 1 January 1970 was a Thursday.
DayName(local) == DayNames[((local \div 86400 + 3) % 7) + 1]

\* The proleptic Gregorian date of a day number counted from 1 January 1970.
Civil(days) ==
    LET z == days + 719468
        era == z \div 146097
        doe == z - era * 146097
        yoe == (doe - doe \div 1460 + doe \div 36524 - doe \div 146096) \div 365
        doy == doe - (365 * yoe + yoe \div 4 - yoe \div 100)
        mp == (5 * doy + 2) \div 153
        d == doy - (153 * mp + 2) \div 5 + 1
        m == IF mp < 10 THEN mp + 3 ELSE mp - 9
        y == yoe + era * 400 + (IF m <= 2 THEN 1 ELSE 0)
    IN  [year |-> y, month |-> m, day |-> d]

\* strftime('%d %B %Y')
DateStr(local) ==
    LET c == Civil(local \div 86400)
    IN  Two(c.day) \o <<" ", MonthNames[c.month], " ">> \o NatStr(c.year)

\* ------------------------------------------------------------ formatting

\* f"{x:.2f}" of a number given in thousandths (no input lies exactly
\* between two hundredths).
Fmt2f(num) ==
    LET a == IF num.milli < 0 THEN -num.milli ELSE num.milli
        c == (a + 5) \div 10
    IN  (IF num.milli < 0 THEN <<"-">> ELSE <<>>)
            \o NatStr(c \div 100) \o <<".">> \o Two(c % 100)

Cases == {<<"c", "C">>, <<"s", "S">>, <<"k", "K">>}
Upper(c) == IF \E p \in Cases : p[1] = c THEN (CHOOSE p \in Cases : p[1] = c)[2] ELSE c
Lower(c) == IF \E p \in Cases : p[2] = c THEN (CHOOSE p \in Cases : p[2] = c)[1] ELSE c

CapitalizeFirstOnly(s) ==
    IF s = <<>> THEN s ELSE <<Upper(s[1])>> \o Tail(s)
\* str.capitalize(): the first character in upper case, all others in lower
\* case.
Capitalize(s) ==
    IF s = <<>> THEN s ELSE <<Upper(s[1])>> \o [i \in 1..(Len(s) - 1) |-> Lower(s[i + 1])]

\* dict.get(key, 'N/A') of lines 49 and 50, then str() of the f-string.
GetOrNA(x) == IF Has(x) THEN IntStr(x.v) ELSE <<"N/A">>

\* Lines 41 to 53: the fields are read in the order of the code; the first
\* one that is missing, or <<>> when all are there.
FirstMissing(body) ==
    IF ~Has(body.name) THEN <<"name">>
    ELSE IF ~Has(body.sys) THEN <<"sys">>
    ELSE IF ~Has(body.sys.country) THEN <<"country">>
    ELSE IF ~Has(body.main) THEN <<"main">>
    ELSE IF ~Has(body.main.temp) THEN <<"temp">>
    ELSE IF ~Has(body.main.feels_like) THEN <<"feels_like">>
    ELSE IF ~Has(body.main.humidity) THEN <<"humidity">>
    ELSE IF ~Has(body.weather) THEN <<"weather">>
    ELSE IF body.weather.items = <<>> THEN <<"list index out of range">>
    ELSE IF ~Has(body.weather.items[1].description) THEN <<"description">>
    ELSE IF ~Has(body.wind) THEN <<"wind">>
    ELSE IF ~Has(body.timezone) THEN <<"timezone">>
    ELSE <<>>

\* Lines 41 to 80.  A missing key raises KeyError, an empty weather list
\* IndexError, a zone name pytz does not know UnknownTimeZoneError.
Extract(body, now) ==
    IF FirstMissing(body) = <<"list index out of range">>
    THEN Raise("IndexError", FirstMissing(body))
    ELSE IF FirstMissing(body) # <<>> THEN Raise("KeyError", FirstMissing(body))
    ELSE IF ~ZoneKnown(ZoneName(body.timezone.v))
         THEN Raise("UnknownTimeZoneError", ZoneName(body.timezone.v))
    ELSE IF ~Has(body.sys.sunrise) THEN Raise("KeyError", <<"sunrise">>)
    ELSE IF ~Has(body.sys.sunset) THEN Raise("KeyError", <<"sunset">>)
    ELSE LET off == ZoneOffset(ZoneName(body.timezone.v))
             current_time == LocalSeconds(now, off)
         IN  [kind |-> "success",
              city |-> <<body.name.v, ", ", body.sys.country.v>>,
              day |-> DayName(current_time),
              date |-> DateStr(current_time),
              temperature |-> Fmt2f(body.main.temp) \o <<"°C">>,
              feels_like |-> Fmt2f(body.main.feels_like) \o <<"°C">>,
              humidity |-> IntStr(body.main.humidity.v) \o <<"%">>,
              description |-> Capitalize(body.weather.items[1].description.v),
              wind_speed |-> GetOrNA(body.wind.speed) \o <<" m/s">>,
              wind_deg |-> GetOrNA(body.wind.deg) \o <<"°">>,
              sunrise |-> HMS(LocalSeconds(body.sys.sunrise.v, off)),
              sunset |-> HMS(LocalSeconds(body.sys.sunset.v, off))]

\* Lines 39 to 83, for a body that json() parsed.  A body that is no JSON
\* object has no get().
Resolve(body, now) ==
    IF body.t # "obj" THEN Raise("AttributeError", <<"get">>)
    ELSE IF CodIs200(body.cod) THEN Extract(body, now)
    ELSE Failure(ErrNotFound)

\* The name of the zone line 56 assigns to local_timezone, <<>> when the
\* line is not reached or pytz raises.
LocalTimezone(body) ==
    IF /\ body.t = "obj"
       /\ CodIs200(body.cod)
       /\ FirstMissing(body) = <<>>
       /\ ZoneKnown(ZoneName(body.timezone.v))
    THEN ZoneName(body.timezone.v)
    ELSE <<>>

\* Response.raise_for_status() of line 35 raises HTTPError for the client
\* and server error statuses, 400 to 599, and for no other status.
RaisesForStatus(status) == 400 <= status /\ status < 600

Reason(status) ==
    CASE status = 404 -> "Not Found"
      [] status = 500 -> "Internal Server Error"
      [] OTHER -> ""

\* str() of the HTTPError of raise_for_status().
HTTPErrorText(status, url) ==
    IntStr(status)
        \o <<IF status < 500 THEN " Client Error: " ELSE " Server Error: ",
              Reason(status), " for url: ">>
        \o url

\* ------------------------------------------------------ provider replies

Defects == {"none", "name", "sys", "country", "sunrise", "main", "weather",
            "empty_weather", "description", "wind", "speed", "deg", "timezone"}

\* A JSON object as the provider sends it, less the part `defect` names.
MkBody(cod, tz, desc, rise, temp, defect) ==
    [t |-> "obj",
     cod |-> cod,
     name |-> IF defect = "name" THEN Absent ELSE JStr("London"),
     sys |-> IF defect = "sys" THEN Absent
             ELSE [t |-> "obj",
                   country |-> IF defect = "country" THEN Absent ELSE JStr("GB"),
                   sunrise |-> IF defect = "sunrise" THEN Absent ELSE JInt(rise),
                   sunset |-> JInt(rise + 36000)],
     main |-> IF defect = "main" THEN Absent
              ELSE [t |-> "obj", temp |-> JNum(temp), feels_like |-> JNum(temp - 1234),
                    humidity |-> JInt(81)],
     weather |-> IF defect = "weather" THEN Absent
                 ELSE [t |-> "list",
                       items |-> IF defect = "empty_weather" THEN <<>>
                                 ELSE <<[t |-> "obj",
                                         description |-> IF defect = "description"
                                                         THEN Absent ELSE JStr(desc)]>>],
     wind |-> IF defect = "wind" THEN Absent
              ELSE [t |-> "obj",
                    speed |-> IF defect = "speed" THEN Absent ELSE JInt(4),
                    deg |-> IF defect = "deg" THEN Absent ELSE JInt(250)],
     timezone |-> IF defect = "timezone" THEN Absent ELSE JInt(tz)]

Cods == {JInt(200), JFloat(200), JInt(404), JStr("200"), JStr("404"), Absent}
Statuses == {200, 300, 404, 500}

\* Offsets of a whole number of hours, UTC-12 to UTC+14.
WholeHours == {3600 * h : h \in -12..14}
\* Offsets in use that are no whole number of hours, and ones next to zero.
Fractional == {19800, 20700, -12600, -34200, 1, -1}
\* Offsets for which no Etc/GMT zone exists.
OutOfRange == {54000, -46800}

Sky == <<"s", "k", "y">>
DescChars == {"c", "S", " "}
Descs == UNION {[1..n -> DescChars] : n \in 0..MaxDesc}
Rises == {1700000000, 1700031599}
Temps == {21456, 21000, 0, -4, -12344}
\* 14 November 2023 22:13:20 UTC; the last second of 28 February 2000 UTC.
Clock == {1700000000, 951782399}

Exchange(status, body, now) == [status |-> status, body |-> body, now |-> now]

Exchanges ==
    {Exchange(200, MkBody(c, 3600, Sky, 1700000000, 21456, d), 1700000000) :
        c \in Cods, d \in Defects}
    \cup {Exchange(st, MkBody(c, 3600, Sky, 1700000000, 21456, d), 1700000000) :
        st \in Statuses, c \in Cods, d \in {"none", "name"}}
    \cup {Exchange(200, MkBody(JInt(200), tz, Sky, r, 21456, "none"), 1700000000) :
        tz \in WholeHours \cup Fractional \cup OutOfRange, r \in Rises}
    \cup {Exchange(200, MkBody(JInt(200), 3600, d, 1700000000, 21456, "none"), 1700000000) :
        d \in Descs}
    \cup {Exchange(200, MkBody(JInt(200), tz, Sky, 1700000000, tmp, "none"), now) :
        tz \in {-43200, 0, 50400}, tmp \in Temps, now \in Clock}
    \cup {Exchange(st, [t |-> b], 1700000000) : st \in Statuses, b \in {"list", "text"}}

ConnErrors == {<<"Connection refused">>, <<"Read timed out.">>}

\* ------------------------------------------------------------------- state

VARIABLES
    pc,            \* where the invocation stands
    API_Key,       \* line 10
    method,        \* request.method
    form,          \* request.form["city"] as submitted
    city,          \* line 18
    url,           \* base_url, line 30
    calls,         \* how often this invocation has called requests.get
    reply,         \* what came of the call
    local_timezone,\* the name of the zone of line 56
    weather_info,  \* line 14 and the assignments to it
    escaped        \* the exception that left weather(), if one did

vars == <<pc, API_Key, method, form, city, url, calls, reply, local_timezone,
          weather_info, escaped>>

NoReply == [kind |-> "none"]
NoExc == [kind |-> "none"]

Cleared ==
    /\ method = "" /\ form = NoForm /\ city = <<>> /\ url = <<>> /\ calls = 0
    /\ reply = NoReply /\ local_timezone = <<>> /\ weather_info = None
    /\ escaped = NoExc

Init ==
    /\ pc = "idle"
    /\ API_Key \in {DefaultKey, "<API_KEY of the environment>"}
    /\ Cleared

\* Flask hands a request for "/" to weather().
Request(m, f) ==
    /\ pc = "idle"
    /\ pc' = "received"
    /\ method' = m
    /\ form' = f
    /\ UNCHANGED <<API_Key, city, url, calls, reply, local_timezone, weather_info, escaped>>

\* Lines 14, 17, 90: a GET renders the bare form.
PageLoad ==
    /\ pc = "received" /\ method = "GET"
    /\ weather_info' = None
    /\ pc' = "resolved"
    /\ UNCHANGED <<API_Key, method, form, city, url, calls, reply, local_timezone, escaped>>

\* Line 18: request.form["city"] of a POST without the field raises
\* werkzeug's BadRequestKeyError.
MissingField ==
    /\ pc = "received" /\ method = "POST" /\ form = NoField
    /\ escaped' = Raise("BadRequestKeyError", <<"city">>)
    /\ pc' = "raised"
    /\ UNCHANGED <<API_Key, method, form, city, url, calls, reply, local_timezone,
                   weather_info>>

\* Lines 18 to 34: strip, validate, and either fail or send the GET.
Validate ==
    /\ pc = "received" /\ method = "POST" /\ form # NoField
    /\ city' = Strip(form)
    /\ IF NotCity(city')
         THEN /\ weather_info' = Failure(ErrEmpty)
              /\ pc' = "resolved"
              /\ UNCHANGED <<url, calls>>
         ELSE IF TooLong(city')
         THEN /\ weather_info' = Failure(ErrTooLong)
              /\ pc' = "resolved"
              /\ UNCHANGED <<url, calls>>
         ELSE /\ url' = BaseUrl(API_Key, city')
              /\ calls' = calls + 1
              /\ pc' = "fetching"
              /\ UNCHANGED weather_info
    /\ UNCHANGED <<API_Key, method, form, reply, local_timezone, escaped>>

\* Lines 34, 86, 87: requests.get raises (no connection, a timeout).
ConnectionFails(e) ==
    /\ pc = "fetching"
    /\ reply' = [kind |-> "failed", text |-> e]
    /\ weather_info' = Failure(<<ErrFetchPrefix>> \o e)
    /\ pc' = "resolved"
    /\ UNCHANGED <<API_Key, method, form, city, url, calls, local_timezone, escaped>>

\* Lines 34 to 87: requests.get returns a response.  json() of a body that
\* is no JSON raises a RequestException from requests 2.27 on and a plain
\* ValueError before; the repository pins no version.
ReceiveReply(x, newer) ==
    /\ pc = "fetching"
    /\ reply' = [kind |-> "http", status |-> x.status, body |-> x.body, now |-> x.now]
    /\ local_timezone' = IF RaisesForStatus(x.status) \/ x.body.t = "text"
                         THEN <<>> ELSE LocalTimezone(x.body)
    /\ IF RaisesForStatus(x.status)
         THEN /\ weather_info' = Failure(<<ErrFetchPrefix>> \o HTTPErrorText(x.status, url))
              /\ pc' = "resolved"
              /\ UNCHANGED escaped
         ELSE IF x.body.t = "text"
         THEN IF newer
              THEN /\ weather_info' = Failure(<<ErrFetchPrefix, "Expecting value: line 1 column 1 (char 0)">>)
                   /\ pc' = "resolved"
                   /\ UNCHANGED escaped
              ELSE /\ escaped' = Raise("ValueError", <<"Expecting value: line 1 column 1 (char 0)">>)
                   /\ pc' = "raised"
                   /\ UNCHANGED weather_info
         ELSE LET out == Resolve(x.body, x.now)
              IN  IF out.kind = "raise"
                  THEN /\ escaped' = out
                       /\ pc' = "raised"
                       /\ UNCHANGED weather_info
                  ELSE /\ weather_info' = out
                       /\ pc' = "resolved"
                       /\ UNCHANGED escaped
    /\ UNCHANGED <<API_Key, method, form, city, url, calls>>

\* Line 90: the page is rendered and the invocation is over.
Render ==
    /\ pc = "resolved"
    /\ pc' = "idle"
    /\ method' = "" /\ form' = NoForm /\ city' = <<>> /\ url' = <<>> /\ calls' = 0
    /\ reply' = NoReply /\ local_timezone' = <<>> /\ weather_info' = None
    /\ escaped' = NoExc
    /\ UNCHANGED API_Key

\* The exception reaches Flask, which answers with an error page.
Abort ==
    /\ pc = "raised"
    /\ pc' = "idle"
    /\ method' = "" /\ form' = NoForm /\ city' = <<>> /\ url' = <<>> /\ calls' = 0
    /\ reply' = NoReply /\ local_timezone' = <<>> /\ weather_info' = None
    /\ escaped' = NoExc
    /\ UNCHANGED API_Key

Next ==
    \/ Request("GET", NoForm)
    \/ Request("POST", NoField)
    \/ \E f \in RawCities : Request("POST", f)
    \/ PageLoad
    \/ MissingField
    \/ Validate
    \/ \E e \in ConnErrors : ConnectionFails(e)
    \/ \E x \in Exchanges, newer \in BOOLEAN : ReceiveReply(x, newer)
    \/ Render
    \/ Abort

Spec == Init /\ [][Next]_vars

\* ------------------------------------------------------------------ claims

\* Reference readings of the words the claims use, written without the
\* operators of the model above.

RECURSIVE TrimLeft(_)
TrimLeft(s) == IF s # <<>> /\ Head(s) \in {" ", "\t"} THEN TrimLeft(Tail(s)) ELSE s
RECURSIVE TrimRight(_)
TrimRight(s) ==
    IF s # <<>> /\ s[Len(s)] \in {" ", "\t"} THEN TrimRight(SubSeq(s, 1, Len(s) - 1)) ELSE s
Trimmed(s) == TrimRight(TrimLeft(s))

OnlyWhitespace(s) == \A i \in 1..Len(s) : s[i] \in {" ", "\t"}

\* The invocation is that of a submitted city and validation is behind it.
Validated == method = "POST" /\ form # NoField /\ pc \in {"fetching", "resolved", "raised"}
\* The invocation has come to its end, one way or the other.
Ended == pc \in {"resolved", "raised"}
\* A reply arrived whose status raise_for_status() lets pass and whose body
\* json() parsed into an object.
ParsedObject == reply.kind = "http" /\ ~(reply.status \in 400..599) /\ reply.body.t = "obj"
IsNumber200(cod) == cod.t \in {"int", "float"} /\ cod.v = 200
\* The reply is a complete cod = 200 object that passed raise_for_status().
Cod200 == ParsedObject /\ IsNumber200(reply.body.cod)

IsFailure(w) == w.kind = "error" /\ DOMAIN w = {"kind", "error"} /\ Len(w.error) >= 1
SuccessFields == {"city", "day", "date", "temperature", "feels_like", "humidity",
                  "description", "wind_speed", "wind_deg", "sunrise", "sunset"}
IsSuccess(w) ==
    /\ w.kind = "success"
    /\ DOMAIN w = {"kind"} \cup SuccessFields
    /\ \A f \in SuccessFields : Len(w[f]) >= 1
IsTransportError(w) == w.kind = "error" /\ Head(w.error) = ErrFetchPrefix

\* Division rounding toward zero, and toward minus infinity.
TruncDiv(a, b) == IF a >= 0 THEN a \div b ELSE -((-a) \div b)
FloorDiv(a, b) == CHOOSE q \in -24..24 : q * b <= a /\ a < (q + 1) * b
ZoneNamed(tz, hours) == EtcGMT \o (IF tz < 0 THEN <<"+">> ELSE <<>>) \o IntStr(hours)
\* The zone name the handler asked pytz for, <<>> if it asked for none.
AskedZone ==
    IF local_timezone # <<>> THEN local_timezone
    ELSE IF pc = "raised" /\ escaped.exc = "UnknownTimeZoneError" THEN escaped.arg
    ELSE <<>>

\* C1: a reply that was received and parsed, and whose cod is not the
\* number 200 (404, a string, absent), resolves to the city-not-found
\* Failure, whatever else the reply holds or lacks.
C1_CodNot200IsCityNotFound ==
    (Ended /\ ParsedObject /\ ~IsNumber200(reply.body.cod))
        => (pc = "resolved" /\ weather_info = Failure(ErrNotFound))

C1_Witness ==
    /\ pc = "resolved" /\ ParsedObject /\ reply.status = 200
    /\ reply.body.cod.t = "str" /\ reply.body.cod.v = "200"
    /\ ~Has(reply.body.name)
    /\ weather_info = Failure(ErrNotFound)

\* C2: when the GET fails at the transport level (requests.get raises, or
\* the status is not 2xx), the invocation resolves to the Failure that
\* starts with the fetch-error text and carries the error text, never to a
\* Success or to city-not-found, whatever the body holds.  Stated for the
\* bodies that are JSON objects, whose handling no version of requests
\* changes.
C2_TransportFailureIsFetchError ==
    (Ended /\ (reply.kind = "failed"
                \/ (reply.kind = "http" /\ ~(reply.status \in 200..299)
                    /\ reply.body.t = "obj")))
        => (pc = "resolved" /\ IsTransportError(weather_info)
            /\ Len(weather_info.error) >= 2)

\* C3: no exception raised while a parsed reply is read and formatted
\* leaves the handler; each is turned into a Failure.
C3_NoExceptionEscapes ==
    (Ended /\ ParsedObject)
        => (pc = "resolved" /\ (IsFailure(weather_info) \/ IsSuccess(weather_info)))

\* C4: every invocation for a submitted city ends resolved with exactly one
\* of the two variants, a Failure that carries a message alone or a Success
\* with every field filled.  Stated for the invocations that got no reply
\* or one whose body is a JSON object.
C4_ExactlyOneVariant ==
    (Ended /\ method = "POST" /\ form # NoField
       /\ (reply.kind = "http" => reply.body.t = "obj"))
        => /\ pc = "resolved"
           /\ IsFailure(weather_info) \/ IsSuccess(weather_info)
           /\ ~(IsFailure(weather_info) /\ IsSuccess(weather_info))

\* C5: a city longer than 100 characters after trimming resolves to the
\* too-long Failure without a network call; the test is on the trimmed
\* text, so a city of at most 100 characters after trimming is never
\* rejected as too long, however long the raw text.
C5_TooLongAfterTrim ==
    Validated =>
        /\ Len(Trimmed(form)) > 100
            => (pc = "resolved" /\ weather_info = Failure(ErrTooLong)
                /\ calls = 0 /\ reply = NoReply)
        /\ Len(Trimmed(form)) <= 100 => weather_info # Failure(ErrTooLong)

C5_Witness ==
    /\ Validated /\ pc = "resolved"
    /\ Len(Trimmed(form)) = 101 /\ Len(form) > 101
    /\ weather_info = Failure(ErrTooLong) /\ calls = 0

\* C6: a city of whitespace alone, of any length, resolves to the
\* enter-a-city Failure, never to the too-long one, and no network call is
\* made.
C6_WhitespaceOnlyIsEmpty ==
    (Validated /\ OnlyWhitespace(form))
        => (pc = "resolved" /\ weather_info = Failure(ErrEmpty)
            /\ calls = 0 /\ reply = NoReply)

C6_Witness ==
    /\ Validated /\ pc = "resolved"
    /\ OnlyWhitespace(form) /\ Len(form) > 100 /\ form[1] = "\t"
    /\ weather_info = Failure(ErrEmpty) /\ calls = 0

\* C7: for a complete cod = 200 reply whose timezone is a whole number of
\* hours from UTC-12 to UTC+14, a zone is found, and sunrise and sunset
\* are the timestamps shifted by timezone seconds, as HH:MM:SS.
C7_WholeHourZoneHasSameOffset ==
    (Ended /\ Cod200 /\ FirstMissing(reply.body) = <<>>
       /\ Has(reply.body.sys.sunrise) /\ Has(reply.body.sys.sunset)
       /\ \E h \in -12..14 : reply.body.timezone.v = 3600 * h)
        => /\ pc = "resolved" /\ weather_info.kind = "success"
           /\ weather_info.sunrise = HMS(reply.body.sys.sunrise.v + reply.body.timezone.v)
           /\ weather_info.sunset = HMS(reply.body.sys.sunset.v + reply.body.timezone.v)

C7_Witness ==
    /\ pc = "resolved" /\ Cod200 /\ weather_info.kind = "success"
    /\ reply.body.timezone.v = -18000
    /\ reply.body.sys.sunrise.v = 1700000000
    /\ weather_info.sunrise = <<"1", "7", ":", "1", "3", ":", "2", "0">>

\* C8, as claimed: the hour offset in the zone name is -timezone / 3600
\* rounded toward zero.
C8_HourOffsetTruncates ==
    AskedZone # <<>>
        => AskedZone = ZoneNamed(reply.body.timezone.v, TruncDiv(-reply.body.timezone.v, 3600))

\* C8, amended: the hour offset in the zone name is -timezone / 3600
\* rounded toward minus infinity (19800 gives -6, -12600 gives 3).
C8_HourOffsetFloors ==
    AskedZone # <<>>
        => AskedZone = ZoneNamed(reply.body.timezone.v, FloorDiv(-reply.body.timezone.v, 3600))

C8_Witness ==
    /\ pc = "resolved" /\ weather_info.kind = "success"
    /\ reply.body.timezone.v = 19800
    /\ local_timezone = EtcGMT \o <<"-", "6">>

\* C9, as claimed: the Success description is the provider's with its first
\* character in upper case and every other character as sent.
C9_DescriptionRestUnchanged ==
    (pc = "resolved" /\ weather_info.kind = "success")
        => LET d == reply.body.weather.items[1].description.v
           IN  /\ Len(weather_info.description) = Len(d)
               /\ \A i \in 1..Len(d) :
                     weather_info.description[i] = IF i = 1 THEN Upper(d[i]) ELSE d[i]

\* C9, amended: the Success description is the provider's with its first
\* character in upper case and every other character in lower case.
C9_DescriptionRestLowered ==
    (pc = "resolved" /\ weather_info.kind = "success")
        => LET d == reply.body.weather.items[1].description.v
           IN  /\ Len(weather_info.description) = Len(d)
               /\ \A i \in 1..Len(d) :
                     weather_info.description[i] = IF i = 1 THEN Upper(d[i]) ELSE Lower(d[i])

C9_Witness ==
    /\ pc = "resolved" /\ weather_info.kind = "success"
    /\ reply.body.weather.items[1].description.v = <<"c", "S", " ">>
    /\ weather_info.description = <<"C", "s", " ">>

\* C10: an invocation sends the GET at most once: once for a submission
\* whose trimmed city has 1 to 100 characters, never for a page load or a
\* validation failure; it is sent by the validation step, before anything
\* is resolved, and no later step of the invocation sends it again.
C10_AtMostOneGet ==
    /\ [](/\ calls <= 1
          /\ Ended => calls = IF method = "POST" /\ form # NoField
                                   /\ Len(Trimmed(form)) \in 1..100
                                THEN 1 ELSE 0
          /\ pc = "fetching" => (calls = 1 /\ weather_info = None /\ reply = NoReply)
          /\ pc \in {"idle", "received"} => calls = 0)
    /\ [][calls' # calls => (pc' = "idle" \/ (pc = "received" /\ pc' = "fetching"))]_vars
    /\ [][(pc \in {"fetching", "resolved", "raised"}) => (calls' = calls \/ pc' = "idle")]_vars

C10_Witness ==
    /\ pc = "resolved" /\ calls = 1 /\ Len(city) = 100 /\ Len(form) > 100
    /\ reply.kind = "http" /\ weather_info = Failure(ErrNotFound)

====
